---- MODULE Spec2Model ----
(***************************************************************************)
(* Webhook relay of quality-tracker-backend.                               *)
(*                                                                         *)
(* Two servers of the repository are modelled:                             *)
(*  - the per-test-case relay (src/unnamed/part_009, lines 470-1012):      *)
(*    testCaseResults / processedWebhooks / requestExecutions, the         *)
(*    ingestion endpoint, the read endpoints, DELETE and the socket.io     *)
(*    subscribe / unsubscribe handlers.  Specification: Spec; the same     *)
(*    handlers driven with the status values of one test case:             *)
(*    SpecStatuses.                                                        *)
(*  - the per-request relay with the periodic cleanup                      *)
(*    (src/webhook-server.js, lines 548-1038): webhookResults /            *)
(*    processedWebhooks / activeRequests and cleanupExpiredResults.        *)
(*    Specification: SpecSweeper.                                          *)
(*                                                                         *)
(* JavaScript values that can be undefined / false / an object are         *)
(* encoded as strings ("undefined", "false", "true", or the value), so     *)
(* that && keeps its value-returning semantics.                            *)
(***************************************************************************)
EXTENDS Integers, Sequences, FiniteSets, Bags, TLC

\* ------------------------------------------------------------------ bounds
\* The clock runs from 0 to MaxTime.
MaxTime == 2

\* RESULT_TTL (default 3600000 ms), scaled to clock ticks.
ResultTTL == 1

\* ------------------------------------------------------------------ inputs
\* Execution ids; ids may contain the separator '-'.
Executions == {"a", "a-b"}
\* Statuses a producer sends.
Statuses == {"Passed", "Failed"}
\* testCase.failure: absent ("undefined") or a failure object.
Failures == {"undefined", "f1"}
Clients == {"s1", "s2"}

\* JavaScript truthiness of an encoded value.
Truthy(v) == v \notin {"undefined", "false", "null", ""}

\* The (execution id, test-case id) pairs producers report and clients read.
\* ("a", "b-c") and ("a-b", "c") have the same composite key.
Pairs == {<<"a", "c">>, <<"a", "b-c">>, <<"a-b", "c">>}

\* Bodies the ingestion endpoint receives.  A field that is absent is absent
\* from the record; results is [isArray, items].
ValidPayloads ==
  { [requestId |-> k[1], timestamp |-> "t1",
     results |-> [isArray |-> TRUE,
                  items |-> <<[id |-> k[2], status |-> st, failure |-> f]>>]] :
       k \in Pairs, st \in Statuses, f \in Failures }

\* A request without a body: the handler processes undefined.
AbsentPayload == [f \in {} |-> "undefined"]

InvalidPayloads ==
  { [timestamp |-> "t1",
     results |-> [isArray |-> TRUE,
                  items |-> <<[id |-> "c", status |-> "Passed", failure |-> "undefined"]>>]],
    [requestId |-> "a",
     results |-> [isArray |-> TRUE,
                  items |-> <<[id |-> "c", status |-> "Passed", failure |-> "undefined"]>>]],
    [requestId |-> "a", timestamp |-> "t1"],
    [requestId |-> "a", timestamp |-> "t1",
     results |-> [isArray |-> FALSE, items |-> <<>>]],
    [requestId |-> "a", timestamp |-> "t1",
     results |-> [isArray |-> TRUE, items |-> <<>>]],
    [requestId |-> "a", timestamp |-> "t1",
     results |-> [isArray |-> TRUE,
                  items |-> <<[id |-> "c", status |-> "Passed", failure |-> "undefined"],
                              [id |-> "b-c", status |-> "Failed", failure |-> "undefined"]>>]],
    [requestId |-> "a", timestamp |-> "t1",
     results |-> [isArray |-> TRUE,
                  items |-> <<[status |-> "Passed", failure |-> "undefined"]>>]],
    [requestId |-> "a", timestamp |-> "t1",
     results |-> [isArray |-> TRUE,
                  items |-> <<[id |-> "", status |-> "Passed", failure |-> "undefined"]>>]],
    AbsentPayload }

\* Bodies for ("a", "c") that carry an earlier embedded timestamp.
EarlierPayloads ==
  { [requestId |-> "a", timestamp |-> "t0",
     results |-> [isArray |-> TRUE,
                  items |-> <<[id |-> "c", status |-> st, failure |-> f]>>]] :
       st \in Statuses, f \in Failures }

Payloads == ValidPayloads \cup InvalidPayloads \cup EarlierPayloads

Has(o, f) == f \in DOMAIN o
\* !o.f
Falsy(o, f) == ~Has(o, f) \/ ~Truthy(o[f])

VARIABLES
  \* per-test-case relay (src/unnamed/part_009)
  testCaseResults,     \* Map: compositeKey -> testCaseData
  processedWebhooks,   \* Set of statusKey strings
  requestExecutions,   \* Map: requestId -> [testCaseIds]
  rooms,               \* socket.io rooms: client -> set of room names
  connected,           \* connected sockets
  now,                 \* Date.now()
  \* per-request relay with the periodic cleanup (src/webhook-server.js)
  webhookResults,      \* Map: requestId -> stored webhook data
  processedRequests,   \* Set processedWebhooks of that server: request ids
  activeRequests,      \* Map in insertion order: requirementId -> Set of requestIds
  lastOp,              \* the handler that server ran last
  swept,               \* what the last cleanup run removed: the request ids,
                       \* and those of them that were in processedWebhooks
  \* history (not program state)
  tally                \* per tracked status key: how many deliveries were New,
                       \* how many were Enrichments and how many frames client
                       \* "s1" got for them since the key was last cleared

tvars == <<testCaseResults, processedWebhooks, requestExecutions, rooms,
           connected, now>>

svars == <<webhookResults, processedRequests, activeRequests, lastOp, swept>>

hvars == <<tally>>

vars == <<tvars, svars, hvars>>

\* Variant of MapSet that keeps an existing entry and adds the value next to it.
MapSetAppending(m, k, v) ==
  IF k \in DOMAIN m
    THEN [x \in DOMAIN m \cup {k \o "+"} |-> IF x = k \o "+" THEN v ELSE m[x]]
    ELSE [x \in DOMAIN m \cup {k} |-> IF x = k THEN v ELSE m[x]]

\* Variant of MapSet that does not overwrite an existing entry.
MapSetIfAbsent(m, k, v) == [x \in DOMAIN m \cup {k} |-> IF x \in DOMAIN m THEN m[x] ELSE v]

\* Map.set
MapSet(m, k, v) == [x \in DOMAIN m \cup {k} |-> IF x = k THEN v ELSE m[x]]
\* Map.delete
MapDelete(m, ks) == [x \in DOMAIN m \ ks |-> m[x]]

\* `${requestId}-${testCaseId}`
CompositeKey(requestId, testCaseId) == requestId \o "-" \o testCaseId

\* `${compositeKey}-${status}`
StatusKey(compositeKey, status) == compositeKey \o "-" \o status

\* `request-${requestId}`
RoomOf(requestId) == "request-" \o requestId

\* Variant of validateWebhookPayload that accepts more than one result.
validateAnyCount(payload) ==
  LET e1 == IF Falsy(payload, "requestId")
              THEN <<"requestId is required for proper request isolation">>
              ELSE <<>>
      e2 == IF Falsy(payload, "timestamp")
              THEN <<"timestamp is required">> ELSE <<>>
      e3 == IF ~Has(payload, "results") \/ ~payload.results.isArray
              THEN <<"results must be an array">>
              ELSE IF Len(payload.results.items) = 0
                THEN <<"exactly one test case result expected per webhook">>
                ELSE IF Falsy(payload.results.items[1], "id")
                  THEN <<"test case id is required in results">>
                  ELSE <<>>
      errors == e1 \o e2 \o e3
  IN [valid |-> errors = <<>>, errors |-> errors]

validateWebhookPayload(payload) ==
  LET e1 == IF Falsy(payload, "requestId")
              THEN <<"requestId is required for proper request isolation">>
              ELSE <<>>
      e2 == IF Falsy(payload, "timestamp")
              THEN <<"timestamp is required">> ELSE <<>>
      e3 == IF ~Has(payload, "results") \/ ~payload.results.isArray
              THEN <<"results must be an array">>
              ELSE IF Len(payload.results.items) # 1
                THEN <<"exactly one test case result expected per webhook">>
                ELSE IF Falsy(payload.results.items[1], "id")
                  THEN <<"test case id is required in results">>
                  ELSE <<>>
      errors == e1 \o e2 \o e3
  IN [valid |-> errors = <<>>, errors |-> errors]

\* Variant of IsEnhancedUpdate that does not look at the stored failure.
IsEnhancedUpdateAnyFailure(compositeKey, testCase) ==
  IF compositeKey \notin DOMAIN testCaseResults THEN "undefined"
  ELSE IF testCaseResults[compositeKey].testCase.status # testCase.status THEN "false"
  ELSE testCase.failure

\* existingResult && existingResult.testCase.status === testCase.status &&
\*   !existingResult.testCase.failure && testCase.failure
\* with the value JavaScript's && yields.
IsEnhancedUpdate(compositeKey, testCase) ==
  IF compositeKey \notin DOMAIN testCaseResults THEN "undefined"
  ELSE IF testCaseResults[compositeKey].testCase.status # testCase.status THEN "false"
  ELSE IF Truthy(testCaseResults[compositeKey].testCase.failure) THEN "false"
  ELSE testCase.failure

\* Variant of IsDuplicate that looks the composite key up, not the status key.
IsDuplicateByCompositeKey(compositeKey, testCase) ==
  /\ compositeKey \in processedWebhooks
  /\ ~Truthy(IsEnhancedUpdate(compositeKey, testCase))

\* processedWebhooks.has(statusKey) && !isEnhancedUpdate
IsDuplicate(compositeKey, testCase) ==
  /\ StatusKey(compositeKey, testCase.status) \in processedWebhooks
  /\ ~Truthy(IsEnhancedUpdate(compositeKey, testCase))

\* Variant of EmitToRoom that emits to every connected socket (io.emit).
EmitToAll(room, data) ==
  SetToBag({ [to |-> c, data |-> data] : c \in connected })

\* io.to(room).emit(event, data): one frame to every socket in the room.
EmitToRoom(room, data) ==
  SetToBag({ [to |-> c, data |-> data] : c \in { s \in connected : room \in rooms[s] } })

\* (The execution entry's timestamp field is written once and never read; it
\* is not part of the model.)
\* What processWebhookData does with a payload: whether it throws, the maps
\* and the set it leaves, the descriptor it returns and the frames it emits.
processWebhookData(payload) ==
  IF \/ ~Has(payload, "results")            \* webhookData.results[0] throws
     \/ ~validateWebhookPayload(payload).valid
  THEN [threw |-> TRUE,
        testCaseResults |-> testCaseResults,
        processedWebhooks |-> processedWebhooks,
        requestExecutions |-> requestExecutions,
        emitted |-> EmptyBag]
  ELSE
    LET testCase == payload.results.items[1]
        testCaseId == testCase.id
        requestId == payload.requestId
        compositeKey == CompositeKey(requestId, testCaseId)
        statusKey == StatusKey(compositeKey, testCase.status)
        execution == IF requestId \in DOMAIN requestExecutions
                       THEN requestExecutions[requestId]
                       ELSE [testCaseIds |-> {}]
        registry == MapSet(requestExecutions, requestId,
                           [execution EXCEPT !.testCaseIds = @ \cup {testCaseId}])
        isEnhancedUpdate == IsEnhancedUpdate(compositeKey, testCase)
        testCaseData == [requestId |-> requestId,
                         testCaseId |-> testCaseId,
                         testCase |-> testCase,
                         receivedAt |-> now,
                         compositeKey |-> compositeKey,
                         ttl |-> now + ResultTTL]
        broadcastData == [requestId |-> requestId,
                          testCaseId |-> testCaseId,
                          testCase |-> testCase,
                          timestamp |-> now,
                          enhanced |-> isEnhancedUpdate]
    IN IF IsDuplicate(compositeKey, testCase)
       THEN [threw |-> FALSE,
             testCaseResults |-> testCaseResults,
             processedWebhooks |-> processedWebhooks,
             requestExecutions |-> registry,
             emitted |-> EmptyBag,
             result |-> [compositeKey |-> compositeKey, duplicate |-> TRUE]]
       ELSE [threw |-> FALSE,
             testCaseResults |-> MapSet(testCaseResults, compositeKey, testCaseData),
             processedWebhooks |-> IF ~Truthy(isEnhancedUpdate)
                                     THEN processedWebhooks \cup {statusKey}
                                     ELSE processedWebhooks,
             requestExecutions |-> registry,
             emitted |-> EmitToRoom(RoomOf(requestId), broadcastData),
             result |-> [compositeKey |-> compositeKey,
                         testCaseId |-> testCaseId,
                         status |-> testCase.status,
                         enhanced |-> isEnhancedUpdate,
                         broadcastSent |-> TRUE]]

\* The response the catch block of the POST handler sends, whatever was thrown.
CatchResponse == [status |-> 400, body |-> [success |-> FALSE]]

\* The HTTP response of POST /api/webhook/test-results.  fault: a call inside
\* processWebhookData (the logger, io.to(...).emit) throws for a reason that
\* is not in the payload.
PostTestResultsWith(payload, fault) ==
  LET out == processWebhookData(payload) IN
  IF out.threw \/ fault
    THEN CatchResponse
    ELSE [status |-> 200, body |-> out.result]

\* The HTTP response when nothing but the payload can make processing fail.
PostTestResults(payload) == PostTestResultsWith(payload, FALSE)

Init ==
  /\ testCaseResults = <<>>
  /\ processedWebhooks = {}
  /\ requestExecutions = <<>>
  /\ rooms = [c \in Clients |-> {}]
  /\ connected = {}
  /\ now = 0
  /\ webhookResults = <<>>
  /\ processedRequests = {}
  /\ activeRequests = <<>>
  /\ lastOp = "none"
  /\ swept = [removed |-> {}, tracked |-> {}]
  /\ tally = <<>>

\* POST /api/webhook/test-results
Deliver(payload) ==
  /\ UNCHANGED <<svars, hvars>>
  /\ testCaseResults' = processWebhookData(payload).testCaseResults
  /\ processedWebhooks' = processWebhookData(payload).processedWebhooks
  /\ requestExecutions' = processWebhookData(payload).requestExecutions
  /\ UNCHANGED <<rooms, connected, now>>

\* POST /api/webhook/test-results when io.to(...).emit throws (line 657): the
\* store, the tracking set and the registry are already written, the handler
\* answers with CatchResponse.
DeliverFault(payload) ==
  /\ ~processWebhookData(payload).threw
  /\ ~Has(processWebhookData(payload).result, "duplicate")
  /\ PostTestResultsWith(payload, TRUE) = CatchResponse
  /\ Deliver(payload)

\* Variant of Expired with the comparison turned around.
ExpiredInverted(result, t) == result.ttl # 0 /\ result.ttl > t

\* result.ttl && result.ttl < Date.now()
Expired(result, t) == result.ttl # 0 /\ result.ttl < t

\* GET /api/test-results/request/:requestId/testcase/:testCaseId:
\* the response and the store it leaves.
GetTestCaseResult(requestId, testCaseId) ==
  LET compositeKey == CompositeKey(requestId, testCaseId) IN
  IF compositeKey \notin DOMAIN testCaseResults
    THEN [status |-> 404, testCaseResults |-> testCaseResults]
    ELSE IF Expired(testCaseResults[compositeKey], now)
      THEN [status |-> 404,
            testCaseResults |-> MapDelete(testCaseResults, {compositeKey})]
      ELSE [status |-> 200,
            body |-> testCaseResults[compositeKey],
            testCaseResults |-> testCaseResults]

GetTestCase(requestId, testCaseId) ==
  /\ UNCHANGED <<svars, hvars>>
  /\ testCaseResults' = GetTestCaseResult(requestId, testCaseId).testCaseResults
  /\ UNCHANGED <<processedWebhooks, requestExecutions, rooms, connected, now>>

\* GET /api/test-results/request/:requestId: the response and the store it
\* leaves.
GetRequestResults(requestId) ==
  IF requestId \notin DOMAIN requestExecutions
    THEN [status |-> 404, testCaseResults |-> testCaseResults]
    ELSE
      LET execution == requestExecutions[requestId]
          present == { t \in execution.testCaseIds :
                         CompositeKey(requestId, t) \in DOMAIN testCaseResults }
          expiredIds == { t \in present :
                            Expired(testCaseResults[CompositeKey(requestId, t)], now) }
          expiredKeys == { CompositeKey(requestId, t) : t \in expiredIds }
          results == { [testCaseId |-> t,
                        result |-> testCaseResults[CompositeKey(requestId, t)]] :
                         t \in present \ expiredIds }
      IN IF results = {}
           THEN [status |-> 404,
                 testCaseResults |-> MapDelete(testCaseResults, expiredKeys)]
           ELSE [status |-> 200,
                 testCaseCount |-> Cardinality(results),
                 totalExpected |-> Cardinality(execution.testCaseIds),
                 results |-> results,
                 testCaseResults |-> MapDelete(testCaseResults, expiredKeys)]

GetRequest(requestId) ==
  /\ UNCHANGED <<svars, hvars>>
  /\ testCaseResults' = GetRequestResults(requestId).testCaseResults
  /\ UNCHANGED <<processedWebhooks, requestExecutions, rooms, connected, now>>

\* The statuses whose tracking DELETE clears.
ClearedStatuses == {"Not Started", "Running", "Passed", "Failed"}

\* What DELETE /api/test-results/request/:requestId leaves of the store, the
\* tracking set and the registry.
ClearRequestResults(requestId) ==
  IF requestId \in DOMAIN requestExecutions
    THEN
      LET keys == { CompositeKey(requestId, t) :
                      t \in requestExecutions[requestId].testCaseIds }
      IN [testCaseResults |-> MapDelete(testCaseResults, keys),
          processedWebhooks |-> processedWebhooks \
                { StatusKey(k, st) : k \in keys, st \in ClearedStatuses },
          requestExecutions |-> MapDelete(requestExecutions, {requestId})]
    ELSE [testCaseResults |-> testCaseResults,
          processedWebhooks |-> processedWebhooks,
          requestExecutions |-> requestExecutions]

\* Variant of DeleteRequest that forgets the execution and keeps its results.
DeleteRequestRegistryOnly(requestId) ==
  /\ UNCHANGED <<svars, hvars>>
  /\ UNCHANGED <<rooms, connected, now>>
  /\ requestExecutions' = MapDelete(requestExecutions, {requestId})
  /\ UNCHANGED <<testCaseResults, processedWebhooks>>

\* DELETE /api/test-results/request/:requestId
DeleteRequest(requestId) ==
  /\ UNCHANGED <<svars, hvars>>
  /\ UNCHANGED <<rooms, connected, now>>
  /\ testCaseResults' = ClearRequestResults(requestId).testCaseResults
  /\ processedWebhooks' = ClearRequestResults(requestId).processedWebhooks
  /\ requestExecutions' = ClearRequestResults(requestId).requestExecutions

\* io.on('connection')
Connect(c) ==
  /\ UNCHANGED <<svars, hvars>>
  /\ c \notin connected
  /\ connected' = connected \cup {c}
  /\ UNCHANGED <<testCaseResults, processedWebhooks, requestExecutions, rooms, now>>

\* The frames socket.on('subscribe-request') replays to the subscribing socket.
SubscribeReplay(c, requestId) ==
  IF requestId \notin DOMAIN requestExecutions THEN EmptyBag
  ELSE
    LET live == { t \in requestExecutions[requestId].testCaseIds :
                    /\ CompositeKey(requestId, t) \in DOMAIN testCaseResults
                    /\ \/ testCaseResults[CompositeKey(requestId, t)].ttl = 0
                       \/ testCaseResults[CompositeKey(requestId, t)].ttl > now }
    IN SetToBag({ [to |-> c,
                   data |-> [requestId |-> requestId,
                             testCaseId |-> t,
                             testCase |-> testCaseResults[CompositeKey(requestId, t)].testCase,
                             timestamp |-> testCaseResults[CompositeKey(requestId, t)].receivedAt]] :
                  t \in live })

\* socket.on('subscribe-request'): socket.join, then the replay.
Subscribe(c, requestId) ==
  /\ UNCHANGED <<svars, hvars>>
  /\ c \in connected
  /\ rooms' = [rooms EXCEPT ![c] = @ \cup {RoomOf(requestId)}]
  /\ UNCHANGED <<testCaseResults, processedWebhooks, requestExecutions, connected, now>>

\* socket.on('unsubscribe-request'): socket.leave
Unsubscribe(c, requestId) ==
  /\ UNCHANGED <<svars, hvars>>
  /\ c \in connected
  /\ rooms' = [rooms EXCEPT ![c] = @ \ {RoomOf(requestId)}]
  /\ UNCHANGED <<testCaseResults, processedWebhooks, requestExecutions, connected, now>>

\* socket.on('disconnect'): the handler only logs; socket.io itself removes
\* the closed socket from every room.
Disconnect(c) ==
  /\ UNCHANGED <<svars, hvars>>
  /\ c \in connected
  /\ connected' = connected \ {c}
  /\ rooms' = [rooms EXCEPT ![c] = {}]
  /\ UNCHANGED <<testCaseResults, processedWebhooks, requestExecutions, now>>

\* Time passes.
Tick ==
  /\ now < MaxTime
  /\ now' = now + 1
  /\ UNCHANGED <<testCaseResults, processedWebhooks, requestExecutions, rooms, connected>>
  /\ UNCHANGED <<svars, hvars>>

Next ==
  \/ \E p \in Payloads : Deliver(p)
  \/ \E k \in Pairs : GetTestCase(k[1], k[2])
  \/ \E e \in Executions : GetRequest(e)
  \/ \E e \in Executions : DeleteRequest(e)
  \/ \E c \in Clients : Connect(c)
  \/ \E c \in Clients, e \in Executions : Subscribe(c, e)
  \/ \E c \in Clients, e \in Executions : Unsubscribe(c, e)
  \/ \E c \in Clients : Disconnect(c)
  \/ Tick

Spec == Init /\ [][Next]_vars


\* ------------------------------------------------------------------------
\* The per-request relay with the periodic cleanup (src/webhook-server.js).

Requirements == {"R1", "R2"}
Requests == {"q1", "q2"}
\* payload.results, by the statuses of its entries.
ResultLists == {<<>>, <<"Passed">>, <<"Not Started">>}

RequestPayloads ==
  { [requirementId |-> r, requestId |-> q, timestamp |-> "t1", results |-> l] :
      r \in Requirements, q \in Requests, l \in ResultLists }

\* results.some(r => r.status === 'Running' || 'Passed' || 'Failed')
HasRunningTests(results) ==
  \E i \in 1..Len(results) : results[i] \in {"Running", "Passed", "Failed"}

\* results.every(r => r.status === 'Passed' || r.status === 'Failed')
AllTestsComplete(results) ==
  \A i \in 1..Len(results) : results[i] \in {"Passed", "Failed"}

\* processedWebhooks.has(webhookId) && !hasRunningTests
IsDuplicateRequest(payload) ==
  /\ payload.requestId \in processedRequests
  /\ ~HasRunningTests(payload.results)

\* activeRequests.get(requirementId).add(requestId), creating the Set first
\* when the requirement is new (a new key goes to the end of the Map).
RegistryAdd(reg, requirementId, requestId) ==
  IF \E i \in 1..Len(reg) : reg[i].key = requirementId
    THEN [i \in 1..Len(reg) |->
            IF reg[i].key = requirementId
              THEN [reg[i] EXCEPT !.ids = @ \cup {requestId}]
              ELSE reg[i]]
    ELSE Append(reg, [key |-> requirementId, ids |-> {requestId}])

\* Variant of RegistryRemove that deletes the whole Set it finds the id in.
RegistryRemoveSet(reg, requestId) ==
  LET hits == { i \in 1..Len(reg) : requestId \in reg[i].ids } IN
  IF hits = {} THEN reg
  ELSE
    LET first == CHOOSE i \in hits : \A j \in hits : i <= j
    IN SubSeq(reg, 1, first - 1) \o SubSeq(reg, first + 1, Len(reg))

\* for (const [reqId, requestSet] of activeRequests.entries()):
\* the first Set that has requestId loses it, is deleted when it becomes
\* empty, and the loop breaks.
RegistryRemove(reg, requestId) ==
  LET hits == { i \in 1..Len(reg) : requestId \in reg[i].ids } IN
  IF hits = {} THEN reg
  ELSE
    LET first == CHOOSE i \in hits : \A j \in hits : i <= j
        rest == reg[first].ids \ {requestId}
    IN IF rest = {}
         THEN SubSeq(reg, 1, first - 1) \o SubSeq(reg, first + 1, Len(reg))
         ELSE [reg EXCEPT ![first].ids = rest]

RECURSIVE RegistryRemoveAll(_, _)
RegistryRemoveAll(reg, ids) ==
  IF ids = {} THEN reg
  ELSE LET q == CHOOSE x \in ids : TRUE
       IN RegistryRemoveAll(RegistryRemove(reg, q), ids \ {q})

\* POST /api/webhook/test-results of the per-request relay (the payloads
\* drawn are valid: requirementId, requestId, timestamp and a results array).
DeliverRequest(payload) ==
  /\ lastOp' = "deliver"
  /\ swept' = [removed |-> {}, tracked |-> {}]
  /\ UNCHANGED <<tvars, hvars>>
  /\ IF IsDuplicateRequest(payload)
     THEN UNCHANGED <<webhookResults, processedRequests, activeRequests>>
     ELSE /\ processedRequests' =
               IF AllTestsComplete(payload.results)
                 THEN processedRequests \cup {payload.requestId}
                 ELSE processedRequests
          /\ webhookResults' =
               MapSet(webhookResults, payload.requestId,
                      [requirementId |-> payload.requirementId,
                       requestId |-> payload.requestId,
                       results |-> payload.results,
                       receivedAt |-> now,
                       webhookId |-> payload.requestId,
                       ttl |-> now + ResultTTL])
          /\ activeRequests' =
               RegistryAdd(activeRequests, payload.requirementId, payload.requestId)

\* The entries cleanupExpiredResults removes: value.ttl && value.ttl < now
ExpiredRequests ==
  { q \in DOMAIN webhookResults : Expired(webhookResults[q], now) }

\* Variant of SweepProcessed that leaves the tracking set alone.
SweepProcessedKept(expired) == processedRequests

\* processedWebhooks.delete(requestId) for every entry the run removes.
SweepProcessed(expired) == processedRequests \ expired

\* cleanupExpiredResults, run by setInterval and by the health endpoint.
cleanupExpiredResults ==
  /\ lastOp' = "cleanup"
  /\ swept' = [removed |-> ExpiredRequests,
               tracked |-> ExpiredRequests \cap processedRequests]
  /\ webhookResults' = MapDelete(webhookResults, ExpiredRequests)
  /\ processedRequests' = SweepProcessed(ExpiredRequests)
  /\ activeRequests' = RegistryRemoveAll(activeRequests, ExpiredRequests)
  /\ UNCHANGED <<tvars, hvars>>

\* GET /api/test-results/request/:requestId of the per-request relay
GetRequestResult(requestId) ==
  /\ lastOp' = "get"
  /\ swept' = [removed |-> {}, tracked |-> {}]
  /\ webhookResults' =
       IF requestId \in DOMAIN webhookResults /\ Expired(webhookResults[requestId], now)
         THEN MapDelete(webhookResults, {requestId})
         ELSE webhookResults
  /\ UNCHANGED <<processedRequests, activeRequests>>
  /\ UNCHANGED <<tvars, hvars>>

\* DELETE /api/test-results/request/:requestId of the per-request relay
ClearRequest(requestId) ==
  /\ lastOp' = "delete"
  /\ swept' = [removed |-> {}, tracked |-> {}]
  /\ webhookResults' = MapDelete(webhookResults, {requestId})
  /\ processedRequests' = processedRequests \ {requestId}
  /\ activeRequests' = RegistryRemove(activeRequests, requestId)
  /\ UNCHANGED <<tvars, hvars>>

\* Time passes for the per-request relay.
TickRequests ==
  /\ now < MaxTime
  /\ now' = now + 1
  /\ lastOp' = "tick"
  /\ swept' = [removed |-> {}, tracked |-> {}]
  /\ UNCHANGED <<webhookResults, processedRequests, activeRequests>>
  /\ UNCHANGED <<testCaseResults, processedWebhooks, requestExecutions, rooms, connected>>
  /\ UNCHANGED hvars

NextSweeper ==
  \/ \E p \in RequestPayloads : DeliverRequest(p)
  \/ cleanupExpiredResults
  \/ \E q \in Requests : GetRequestResult(q)
  \/ \E q \in Requests : ClearRequest(q)
  \/ TickRequests

SpecSweeper == Init /\ [][NextSweeper]_vars


\* ------------------------------------------------------------------------
\* Properties of the per-test-case relay.

\* The single result entry of a valid payload, and its composite key.
EntryOf(p) == p.results.items[1]
KeyOf(p) == CompositeKey(p.requestId, EntryOf(p).id)

\* The number of frames a bag holds for client c.
FramesTo(bag, c) ==
  LET mine == { f \in BagToSet(bag) : f.to = c }
  IN BagCardinality([f \in mine |-> bag[f]])

\* The clients in the room of execution e.
Subscribers(e) == { c \in connected : RoomOf(e) \in rooms[c] }

\* The store holds, for the key of p, exactly the result p carries.
IsStored(p) ==
  /\ KeyOf(p) \in DOMAIN testCaseResults
  /\ testCaseResults[KeyOf(p)].requestId = p.requestId
  /\ testCaseResults[KeyOf(p)].testCaseId = EntryOf(p).id
  /\ testCaseResults[KeyOf(p)].testCase = EntryOf(p)

\* The delivery of p is answered 200 with duplicate: true.
AnsweredDuplicate(p) ==
  /\ PostTestResults(p).status = 200
  /\ Has(PostTestResults(p).body, "duplicate")
  /\ PostTestResults(p).body.duplicate = TRUE

\* The delivery of p stores p's result and broadcasts it: one frame, carrying
\* the result, to every subscriber of the execution and to nobody else.
StoredAndBroadcast(p) ==
  /\ PostTestResults(p).status = 200
  /\ ~Has(PostTestResults(p).body, "duplicate")
  /\ processWebhookData(p).testCaseResults[KeyOf(p)].testCase = EntryOf(p)
  /\ processWebhookData(p).testCaseResults[KeyOf(p)].requestId = p.requestId
  /\ \A c \in Clients :
       FramesTo(processWebhookData(p).emitted, c) =
         IF c \in Subscribers(p.requestId) THEN 1 ELSE 0
  /\ \A f \in BagToSet(processWebhookData(p).emitted) :
       /\ f.data.requestId = p.requestId
       /\ f.data.testCase = EntryOf(p)

\* C1: when the store holds the result of a valid payload and the identical
\* payload (same key, same status, same failure detail) is delivered again,
\* the delivery is answered 200 with the duplicate flag, nothing is broadcast
\* to any subscriber and the stored entry stays as it is.
C1_IdenticalPayloadIsDuplicate ==
  \A p \in ValidPayloads :
    IsStored(p) =>
      /\ AnsweredDuplicate(p)
      /\ processWebhookData(p).emitted = EmptyBag
      /\ processWebhookData(p).testCaseResults = testCaseResults

C1_Witness ==
  \E p \in ValidPayloads :
    /\ IsStored(p)
    /\ Subscribers(p.requestId) # {}
    /\ AnsweredDuplicate(p)

\* The stored entry for the key of p has p's status and no failure detail,
\* and p carries failure detail.
IsEnrichmentCase(p) ==
  /\ KeyOf(p) \in DOMAIN testCaseResults
  /\ testCaseResults[KeyOf(p)].testCase.status = EntryOf(p).status
  /\ ~Truthy(testCaseResults[KeyOf(p)].testCase.failure)
  /\ Truthy(EntryOf(p).failure)

\* C2: whenever the stored entry for the key has status S and no failure
\* detail and a valid payload with status S and failure detail is delivered,
\* the stored entry is replaced by the incoming result, the response has
\* enhanced = true, and exactly one message with enhanced = true is
\* broadcast on the execution's channel.
C2_EnrichmentFlaggedTrue ==
  \A p \in ValidPayloads :
    IsEnrichmentCase(p) =>
      /\ StoredAndBroadcast(p)
      /\ PostTestResults(p).body.enhanced = "true"
      /\ \A f \in BagToSet(processWebhookData(p).emitted) : f.data.enhanced = "true"

\* C3: whenever the stored entry for the key has a status different from the
\* status of a delivered valid payload, the outcome is New, never Duplicate:
\* the stored entry is replaced by the incoming result and it is broadcast,
\* whatever was delivered for the key earlier.
C3_DifferentStatusIsNew ==
  \A p \in ValidPayloads :
    ( /\ KeyOf(p) \in DOMAIN testCaseResults
      /\ testCaseResults[KeyOf(p)].testCase.status # EntryOf(p).status )
    => StoredAndBroadcast(p)

\* C4: whenever the store has no entry for the key of a valid incoming
\* result, the result is New: it is stored and broadcast, whatever status it
\* carries and whatever was delivered for the key earlier.
C4_AbsentKeyIsNew ==
  \A p \in ValidPayloads :
    KeyOf(p) \notin DOMAIN testCaseResults => StoredAndBroadcast(p)

\* The frame that replays stored entry r to client c on subscribe.
ReplayFrame(c, r) ==
  [to |-> c,
   data |-> [requestId |-> r.requestId, testCaseId |-> r.testCaseId,
             testCase |-> r.testCase, timestamp |-> r.receivedAt]]

\* The TTL of stored entry r has elapsed.
TtlElapsed(r) == now > r.receivedAt + ResultTTL

\* C5: a subscribe to execution E sends the subscribing client, within the
\* subscribe step, exactly one message for every result of E that is stored
\* and whose TTL has not elapsed, and none for a result whose TTL has
\* elapsed.
C5_SubscribeReplaysLiveResults ==
  \A c \in connected : \A e \in Executions :
    \A k \in DOMAIN testCaseResults :
      testCaseResults[k].requestId = e =>
        CopiesIn(ReplayFrame(c, testCaseResults[k]), SubscribeReplay(c, e)) =
          IF TtlElapsed(testCaseResults[k]) THEN 0 ELSE 1

\* C6: once the TTL of a stored entry has elapsed, the read of its key
\* answers 404 and the list of its execution omits it, whether or not
\* anything has removed the entry.
C6_ElapsedEntryUnreadable ==
  \A k \in Pairs :
    ( /\ CompositeKey(k[1], k[2]) \in DOMAIN testCaseResults
      /\ TtlElapsed(testCaseResults[CompositeKey(k[1], k[2])]) )
    => /\ GetTestCaseResult(k[1], k[2]).status = 404
       /\ \/ GetRequestResults(k[1]).status = 404
          \/ \A item \in GetRequestResults(k[1]).results :
               CompositeKey(k[1], item.testCaseId) # CompositeKey(k[1], k[2])

C6_Witness ==
  \E k \in Pairs :
    /\ CompositeKey(k[1], k[2]) \in DOMAIN testCaseResults
    /\ TtlElapsed(testCaseResults[CompositeKey(k[1], k[2])])
    /\ k[1] \in DOMAIN requestExecutions
    /\ k[2] \in requestExecutions[k[1]].testCaseIds
    /\ GetTestCaseResult(k[1], k[2]).status = 404
    /\ GetRequestResults(k[1]).status = 200

\* ------------------------------------------------------------------------
\* Properties of the cleanup run of the per-request relay.

\* C7: immediately after a cleanup run the store holds no entry whose expiry
\* is in the past, and the duplicate-tracking set holds no element for a key
\* the run removed, so that no payload for such a key is reported as a
\* duplicate.
C7_SweepClearsStoreAndTracking ==
  lastOp = "cleanup" =>
    /\ \A q \in DOMAIN webhookResults : ~(webhookResults[q].ttl < now)
    /\ swept.removed \cap DOMAIN webhookResults = {}
    /\ swept.removed \cap processedRequests = {}
    /\ \A p \in RequestPayloads :
         p.requestId \in swept.removed => ~IsDuplicateRequest(p)

C7_Witness ==
  /\ lastOp = "cleanup"
  /\ swept.tracked # {}
  /\ DOMAIN webhookResults # {}

\* C8: immediately after a cleanup run the registry contains no identifier
\* whose result the run removed, under any entry, and no entry whose set is
\* empty.
C8_SweepClearsRegistry ==
  lastOp = "cleanup" =>
    \A i \in 1..Len(activeRequests) :
      /\ activeRequests[i].ids \cap swept.removed = {}
      /\ activeRequests[i].ids # {}

\* ------------------------------------------------------------------------
\* Properties of the broadcast hub.

\* C9: every New or Enrichment outcome for execution E delivers exactly one
\* message, carrying the result and its kind (enhanced true iff Enrichment),
\* to every client subscribed to E's channel at the moment of processing.
C9_BroadcastReachesEverySubscriber ==
  \A p \in ValidPayloads :
    ( /\ PostTestResults(p).status = 200
      /\ ~Has(PostTestResults(p).body, "duplicate") )
    => /\ \A c \in Subscribers(p.requestId) :
            FramesTo(processWebhookData(p).emitted, c) = 1
       /\ \A f \in BagToSet(processWebhookData(p).emitted) :
            /\ f.data.requestId = p.requestId
            /\ f.data.testCase = EntryOf(p)
            /\ (f.data.enhanced = "true") <=> IsEnrichmentCase(p)

\* C10: after a client unsubscribes from execution E it is not in E's room,
\* after it disconnects it is in no room, it enters a room only by
\* subscribing to it, and a client that is not in the room of E receives no
\* frame of any result processed for E.
C10_LeftClientGetsNothing ==
  /\ [](\A c \in Clients :
          /\ (c \notin connected => rooms[c] = {})
          /\ \A p \in Payloads :
               (Has(p, "requestId") /\ RoomOf(p.requestId) \notin rooms[c])
                 => FramesTo(processWebhookData(p).emitted, c) = 0)
  /\ [][\A c \in Clients : \A e \in Executions :
          /\ Unsubscribe(c, e) => RoomOf(e) \notin rooms'[c]
          /\ Disconnect(c) => rooms'[c] = {}
          /\ (RoomOf(e) \notin rooms[c] /\ RoomOf(e) \in rooms'[c])
               => Subscribe(c, e)]_vars

C10_Witness ==
  \E c \in Clients : \E d \in Clients : \E p \in ValidPayloads :
    /\ c \in connected
    /\ rooms[c] # {}
    /\ RoomOf(p.requestId) \notin rooms[c]
    /\ d \in Subscribers(p.requestId)
    /\ FramesTo(processWebhookData(p).emitted, d) = 1
    /\ FramesTo(processWebhookData(p).emitted, c) = 0

\* The defects of a payload the ingestion endpoint must reject: the payload
\* is absent, has no execution id, has no timestamp, has no results array,
\* has zero or several result entries, or its entry has no test-case id.
Malformed(p) ==
  \/ p = AbsentPayload
  \/ ~Has(p, "requestId") \/ p.requestId = ""
  \/ ~Has(p, "timestamp") \/ p.timestamp = ""
  \/ ~Has(p, "results")
  \/ ~p.results.isArray
  \/ Len(p.results.items) # 1
  \/ ~Has(p.results.items[1], "id") \/ p.results.items[1].id = ""

\* The delivery of p leaves the store, the registry and the tracking set as
\* they are and sends no frame to anybody.
WithoutEffect(p) ==
  /\ processWebhookData(p).testCaseResults = testCaseResults
  /\ processWebhookData(p).requestExecutions = requestExecutions
  /\ processWebhookData(p).processedWebhooks = processedWebhooks
  /\ processWebhookData(p).emitted = EmptyBag

\* C11: a payload that is absent, lacks the execution id, lacks the
\* timestamp, has results missing or not an array, has zero or more than one
\* result entry, or whose entry lacks a non-empty test-case id, is answered
\* with a 4xx status, is rejected before reconciliation, and leaves the
\* store, the registry, the tracking set and every subscriber's stream of
\* frames unchanged.
C11_MalformedRejectedWithoutEffect ==
  \A p \in Payloads :
    Malformed(p) =>
      /\ PostTestResults(p).status >= 400
      /\ PostTestResults(p).status < 500
      /\ processWebhookData(p).threw
      /\ WithoutEffect(p)

\* A state with a stored result and a subscriber of execution "a", in which
\* every kind of malformed payload is on offer and a well-formed delivery for
\* "a" would reach that subscriber.
C11_Witness ==
  /\ \A p \in InvalidPayloads : Malformed(p) /\ PostTestResults(p).status = 400
  /\ DOMAIN testCaseResults # {}
  /\ Subscribers("a") # {}
  /\ \E p \in ValidPayloads :
       /\ p.requestId = "a"
       /\ processWebhookData(p).emitted # EmptyBag

\* ------------------------------------------------------------------------
\* The per-test-case relay driven with the status values of one test case:
\* a status the DELETE handler clears, one it does not clear, one no part of
\* the repository knows, and a missing status ("undefined").

\* The statuses the validator of the per-requirement server accepts, and
\* those the DELETE handler of this server enumerates.
AllowedStatuses == {"Passed", "Failed", "Not Run", "Blocked"} \cup ClearedStatuses

StatusValues == {"Passed", "Blocked", "Bogus", "undefined"}

StatusPayloads ==
  { [requestId |-> "a", timestamp |-> "t1",
     results |-> [isArray |-> TRUE,
                  items |-> <<[id |-> "c", status |-> st, failure |-> "undefined"]>>]] :
       st \in StatusValues }

\* Bodies for ("a", "c") with status Passed and one of two failure details.
FailurePayloads ==
  { [requestId |-> "a", timestamp |-> "t1",
     results |-> [isArray |-> TRUE,
                  items |-> <<[id |-> "c", status |-> "Passed", failure |-> f]>>]] :
       f \in {"f1", "f2"} }

NextStatuses ==
  \/ \E p \in StatusPayloads : Deliver(p)
  \/ \E p \in FailurePayloads : Deliver(p)
  \/ \E p \in StatusPayloads : DeliverFault(p)
  \/ GetTestCase("a", "c")
  \/ GetRequest("a")
  \/ DeleteRequest("a")
  \/ Connect("s1")
  \/ Subscribe("s1", "a")
  \/ Unsubscribe("s1", "a")
  \/ Disconnect("s1")
  \/ Tick

SpecStatuses == Init /\ [][NextStatuses]_vars

\* C12: a payload whose single result entry has no status, or a status
\* outside the allowed set, is rejected by the validator: it is answered as
\* an error, and its result is never stored, registered or broadcast.
C12_BadStatusRejected ==
  \A p \in StatusPayloads :
    (~Truthy(EntryOf(p).status) \/ EntryOf(p).status \notin AllowedStatuses) =>
      /\ ~validateWebhookPayload(p).valid
      /\ PostTestResults(p).status = 400
      /\ WithoutEffect(p)

\* The keys under which map m holds an entry of execution e and test case t.
EntriesOf(m, e, t) ==
  { k \in DOMAIN m : m[k].requestId = e /\ m[k].testCaseId = t }

\* C13: the store holds at most one entry per (execution, test case); a
\* delivery that stores a result for a key that already has an entry
\* replaces that entry and adds no second one.
C13_OneEntryPerKey ==
  /\ \A k \in Pairs : Cardinality(EntriesOf(testCaseResults, k[1], k[2])) <= 1
  /\ \A p \in ValidPayloads :
       /\ Cardinality(EntriesOf(processWebhookData(p).testCaseResults,
                                p.requestId, EntryOf(p).id)) <= 1
       /\ KeyOf(p) \in DOMAIN testCaseResults =>
            DOMAIN processWebhookData(p).testCaseResults = DOMAIN testCaseResults

\* A stored result of (execution, test case) is about to be replaced by a
\* delivery with another status for the same pair.
C13_Witness ==
  \E p \in ValidPayloads :
    /\ EntriesOf(testCaseResults, p.requestId, EntryOf(p).id) = {KeyOf(p)}
    /\ testCaseResults[KeyOf(p)].testCase.status # EntryOf(p).status
    /\ ~Has(PostTestResults(p).body, "duplicate")
    /\ processWebhookData(p).testCaseResults[KeyOf(p)].testCase = EntryOf(p)

\* The store holds an entry of execution e and test case t.
HasEntryFor(e, t) == EntriesOf(testCaseResults, e, t) # {}

\* The test-case ids registered for execution e.
RegisteredIds(e) ==
  IF e \in DOMAIN requestExecutions THEN requestExecutions[e].testCaseIds ELSE {}

\* C14: every test-case id in the registry set of an execution has a stored
\* entry for (execution, test case) now, or had one at some point since the
\* id was added to the set; that is, whenever a step adds an id to an
\* execution's set, the store holds an entry for the pair after the step.
C14_RegisteredIdWasStored ==
  [][ \A k \in Pairs :
        (k[2] \notin RegisteredIds(k[1]) /\ k[2] \in RegisteredIds(k[1])')
           => HasEntryFor(k[1], k[2])' ]_vars

\* C15: the ingestion endpoint answers 400 only for malformed input, and
\* answers 500 when the processing of a structurally valid payload fails
\* unexpectedly; an internal failure is never reported as a client error.
C15_InternalFailureIs500 ==
  \A p \in Payloads : \A fault \in BOOLEAN :
    /\ PostTestResultsWith(p, fault).status = 400 => Malformed(p)
    /\ (fault /\ ~Malformed(p)) => PostTestResultsWith(p, fault).status = 500

\* The registered test-case ids of execution e whose composite key holds a
\* result whose time to live has not elapsed.
LiveIds(e) ==
  { t \in RegisteredIds(e) :
      /\ CompositeKey(e, t) \in DOMAIN testCaseResults
      /\ ~TtlElapsed(testCaseResults[CompositeKey(e, t)]) }

\* C16 (as stated): GET of all results of an execution answers 200 with the
\* list and the two counts whenever the execution is in the registry, and 404
\* when it is not; a registered execution whose results have all expired is
\* not answered 404.
C16_RegisteredExecutionGets200 ==
  \A e \in Executions :
    IF e \in DOMAIN requestExecutions
      THEN /\ GetRequestResults(e).status = 200
           /\ Has(GetRequestResults(e), "testCaseCount")
           /\ Has(GetRequestResults(e), "totalExpected")
      ELSE GetRequestResults(e).status = 404

\* C16 (amended): GET of all results of an execution answers 200 exactly when
\* the execution is registered and at least one of its registered ids has a
\* stored, unexpired result; the answer then lists exactly those results,
\* testCaseCount is their number and totalExpected the number of registered
\* ids.  In every other case (execution unknown, or no unexpired result) the
\* answer is 404.
C16_ListedWhenLiveResult ==
  \A e \in Executions :
    IF LiveIds(e) # {}
      THEN /\ GetRequestResults(e).status = 200
           /\ { r.testCaseId : r \in GetRequestResults(e).results } = LiveIds(e)
           /\ \A r \in GetRequestResults(e).results :
                r.result = testCaseResults[CompositeKey(e, r.testCaseId)]
           /\ GetRequestResults(e).testCaseCount = Cardinality(LiveIds(e))
           /\ GetRequestResults(e).totalExpected = Cardinality(RegisteredIds(e))
      ELSE GetRequestResults(e).status = 404

\* Execution "a" has two registered ids, one with an unexpired result and one
\* whose result has expired, and is answered 200 with counts 1 and 2, while
\* another registered execution has nothing unexpired and is answered 404.
C16_Witness ==
  /\ Cardinality(RegisteredIds("a")) = 2
  /\ Cardinality(LiveIds("a")) = 1
  /\ GetRequestResults("a").status = 200
  /\ GetRequestResults("a").testCaseCount = 1
  /\ GetRequestResults("a").totalExpected = 2
  /\ "a-b" \in DOMAIN requestExecutions
  /\ GetRequestResults("a-b").status = 404

\* C17: after DELETE for an execution, no result of that execution is stored,
\* the execution is absent from the registry and no duplicate bookkeeping of
\* it remains: any payload for the execution, with any allowed status, that
\* is delivered next is a New result, stored and broadcast.
C17_DeleteClearsEverything ==
  [][ DeleteRequest("a") =>
        /\ \A k \in DOMAIN testCaseResults' : testCaseResults'[k].requestId # "a"
        /\ "a" \notin DOMAIN requestExecutions'
        /\ \A p \in StatusPayloads :
             EntryOf(p).status \in AllowedStatuses => StoredAndBroadcast(p)' ]_vars

\* C18: a delivery is reconciled in one atomic step, so of two deliveries of
\* the identical payload for a key that has no stored entry, whichever is
\* handled first is a New result (stored, one frame per subscriber) and the
\* other, handled right after it, is a Duplicate that broadcasts nothing:
\* exactly one frame per subscriber in total.
C18_OneNewOneDuplicate ==
  [][ \A p \in ValidPayloads \cup StatusPayloads :
        (KeyOf(p) \notin DOMAIN testCaseResults /\ Deliver(p)) =>
           /\ StoredAndBroadcast(p)
           /\ AnsweredDuplicate(p)'
           /\ (processWebhookData(p).emitted = EmptyBag)' ]_vars

\* The results stored for execution e and test case t: none or one.
StoredResult(e, t) ==
  { testCaseResults[k].testCase : k \in EntriesOf(testCaseResults, e, t) }

\* Payload p is about execution e and test case t.
IsFor(p, e, t) == p.requestId = e /\ EntryOf(p).id = t

\* C19: for a single key, the stored entry equals the result of the most
\* recently processed delivery whose outcome was New or Enrichment: such a
\* delivery makes its result the stored one, and no other step changes the
\* stored result except by removing it.  The timestamp embedded in a payload
\* has no influence: a payload with an earlier timestamp is processed exactly
\* as the same payload with a later one.
C19_LastAcceptedDeliveryWins ==
  /\ [](/\ \A p \in EarlierPayloads : \A q \in ValidPayloads :
            (q.requestId = p.requestId /\ q.results = p.results) =>
               /\ processWebhookData(p) = processWebhookData(q)
               /\ PostTestResults(p) = PostTestResults(q)
        /\ \A p \in ValidPayloads \cup EarlierPayloads :
            ~AnsweredDuplicate(p) =>
               { processWebhookData(p).testCaseResults[x].testCase :
                   x \in EntriesOf(processWebhookData(p).testCaseResults,
                                   p.requestId, EntryOf(p).id) } = {EntryOf(p)})
  /\ [][ \A k \in Pairs :
           \/ StoredResult(k[1], k[2])' = StoredResult(k[1], k[2])
           \/ StoredResult(k[1], k[2])' = {}
           \/ \E p \in ValidPayloads \cup EarlierPayloads :
                /\ IsFor(p, k[1], k[2])
                /\ StoredResult(k[1], k[2])' = {EntryOf(p)}
                /\ ~AnsweredDuplicate(p)
                /\ Deliver(p) ]_vars

\* A result is stored for ("a", "c") and a payload with the earlier timestamp
\* and another status is about to replace it.
C19_Witness ==
  \E p \in EarlierPayloads :
    /\ StoredResult("a", "c") # {}
    /\ \A r \in StoredResult("a", "c") : r.status # EntryOf(p).status
    /\ ~AnsweredDuplicate(p)
    /\ processWebhookData(p).testCaseResults[KeyOf(p)].testCase = EntryOf(p)

\* C20: a delivery with the Duplicate outcome leaves the store (expiry and
\* receipt time of every entry included), the registry (no execution entry
\* is created, no test-case id is added) and the tracking set exactly as
\* they were.
C20_DuplicateChangesNothing ==
  \A p \in ValidPayloads \cup StatusPayloads :
    AnsweredDuplicate(p) =>
      /\ processWebhookData(p).testCaseResults = testCaseResults
      /\ processWebhookData(p).processedWebhooks = processedWebhooks
      /\ processWebhookData(p).requestExecutions = requestExecutions

\* The store holds, under the key of p, a result with the status of p that
\* carries failure detail.
StoredWithFailure(p) ==
  /\ KeyOf(p) \in DOMAIN testCaseResults
  /\ testCaseResults[KeyOf(p)].testCase.status = EntryOf(p).status
  /\ Truthy(testCaseResults[KeyOf(p)].testCase.failure)

\* C21: when the stored entry of a key has status S and carries failure
\* detail, a delivery for that key with status S is a Duplicate whether its
\* failure detail is the same, another one or absent: the store is left as
\* it is and nothing is broadcast.
C21_FailureIsNeverReplaced ==
  \A p \in StatusPayloads \cup FailurePayloads \cup ValidPayloads :
    StoredWithFailure(p) =>
      /\ AnsweredDuplicate(p)
      /\ processWebhookData(p).testCaseResults = testCaseResults
      /\ processWebhookData(p).emitted = EmptyBag

\* The stored result of ("a", "c") carries failure detail while a subscriber
\* listens, and payloads with the same detail, another detail and no detail
\* are on offer for the same status.
C21_Witness ==
  /\ Subscribers("a") # {}
  /\ \E p \in FailurePayloads : \E q \in FailurePayloads : \E r \in StatusPayloads :
       /\ StoredWithFailure(p) /\ StoredWithFailure(q) /\ StoredWithFailure(r)
       /\ testCaseResults[KeyOf(p)].testCase.failure = EntryOf(p).failure
       /\ testCaseResults[KeyOf(q)].testCase.failure # EntryOf(q).failure
       /\ ~Truthy(EntryOf(r).failure)
       /\ AnsweredDuplicate(q)

\* ------------------------------------------------------------------------
\* The per-test-case relay when nobody reads or deletes: producers deliver,
\* clients come and subscribe, time passes.  The server has no periodic task
\* (no setInterval, no cleanup function), so time passing is the only step
\* that could make a stored result go away.  The clock is fair up to MaxTime.
NextUnread ==
  \/ \E p \in ValidPayloads : Deliver(p)
  \/ Connect("s1")
  \/ Subscribe("s1", "a")
  \/ Tick

SpecUnread == Init /\ [][NextUnread]_vars /\ WF_vars(Tick)

\* The composite keys of the pairs producers report.
Keys == { CompositeKey(k[1], k[2]) : k \in Pairs }

\* C22: as time keeps advancing, every result that is stored is eventually
\* removed from the store, even if no client ever reads or deletes it.
C22_StoredResultEventuallyRemoved ==
  \A k \in Keys :
    (k \in DOMAIN testCaseResults) ~> (k \notin DOMAIN testCaseResults)

\* C23: distinct (execution, test case) pairs never share a store slot or a
\* tracking element, also when ids contain '-': a delivery for one pair
\* never overwrites the stored result of another pair, a read of one pair
\* never returns the result of another, and a delivery is never answered as
\* a Duplicate while the slot of its key holds the result of another pair.
C23_PairsNeverShareSlot ==
  /\ [](/\ \A k \in Pairs :
            GetTestCaseResult(k[1], k[2]).status = 200 =>
              /\ GetTestCaseResult(k[1], k[2]).body.requestId = k[1]
              /\ GetTestCaseResult(k[1], k[2]).body.testCaseId = k[2]
        /\ \A p \in ValidPayloads :
            (AnsweredDuplicate(p) /\ KeyOf(p) \in DOMAIN testCaseResults) =>
              /\ testCaseResults[KeyOf(p)].requestId = p.requestId
              /\ testCaseResults[KeyOf(p)].testCaseId = EntryOf(p).id)
  /\ [][ \A k \in Pairs : \A p \in ValidPayloads :
           (StoredResult(k[1], k[2]) # StoredResult(k[1], k[2])'
              /\ ~IsFor(p, k[1], k[2])) => ~Deliver(p) ]_vars

\* C24: DELETE for an execution changes nothing that belongs to another
\* execution: the stored result of every pair of another execution, the
\* tracking element of that stored result and the registry entry of the
\* other execution are the same after the DELETE.
C24_DeleteLeavesOthers ==
  [][ \A e \in Executions : \A k \in Pairs :
        (DeleteRequest(e) /\ k[1] # e) =>
           /\ StoredResult(k[1], k[2])' = StoredResult(k[1], k[2])
           /\ RegisteredIds(k[1])' = RegisteredIds(k[1])
           /\ \A r \in StoredResult(k[1], k[2]) :
                LET statusKey == StatusKey(CompositeKey(k[1], k[2]), r.status)
                IN statusKey \in processedWebhooks => statusKey \in processedWebhooks' ]_vars

\* C25: a result of execution E reaches only clients subscribed to E: the
\* broadcast of a delivery for E goes to the subscribers of E and to nobody
\* else, and the replay on a subscribe to E goes to the subscribing client
\* only and carries only results that were stored for E.
C25_ResultsReachOnlySubscribers ==
  /\ \A p \in ValidPayloads :
       \A f \in BagToSet(processWebhookData(p).emitted) :
         /\ f.to \in Subscribers(p.requestId)
         /\ f.data.requestId = p.requestId
  /\ \A c \in connected : \A e \in Executions :
       \A f \in BagToSet(SubscribeReplay(c, e)) :
         /\ f.to = c
         /\ f.data.requestId = e
         /\ testCaseResults[CompositeKey(e, f.data.testCaseId)].requestId = e

\* C26: every entry of the store is registered: its execution is in the
\* registry and its test-case id is in the set of that execution, so that
\* the list, the replay and the DELETE of the execution reach it.
C26_StoredEntryIsRegistered ==
  \A k \in DOMAIN testCaseResults :
    /\ testCaseResults[k].requestId \in DOMAIN requestExecutions
    /\ testCaseResults[k].testCaseId \in RegisteredIds(testCaseResults[k].requestId)
    /\ k = CompositeKey(testCaseResults[k].requestId, testCaseResults[k].testCaseId)

\* Two executions have stored results, one of them under a key that another
\* registered pair shares, and a stored result has been replaced by one with
\* another status.
C26_Witness ==
  /\ \E k \in DOMAIN testCaseResults : testCaseResults[k].requestId = "a-b"
  /\ \E k \in DOMAIN testCaseResults : testCaseResults[k].requestId = "a"
  /\ "b-c" \in RegisteredIds("a")
  /\ \E p \in ValidPayloads :
       /\ StatusKey(KeyOf(p), EntryOf(p).status) \in processedWebhooks
       /\ testCaseResults[KeyOf(p)].testCase.status # EntryOf(p).status

\* C27: the read paths agree on expiry at every instant: at any moment a
\* stored result of a registered pair is replayed to a new subscriber if and
\* only if the GET of that result answers 200, if and only if the GET of all
\* results of its execution lists it.
C27_ReadPathsAgree ==
  \A k \in Pairs : \A c \in Clients :
    (k[2] \in RegisteredIds(k[1]) /\ CompositeKey(k[1], k[2]) \in DOMAIN testCaseResults) =>
      LET replayed == \E f \in BagToSet(SubscribeReplay(c, k[1])) :
                         f.data.testCaseId = k[2]
          readable == GetTestCaseResult(k[1], k[2]).status = 200
          listed == /\ GetRequestResults(k[1]).status = 200
                    /\ \E r \in GetRequestResults(k[1]).results : r.testCaseId = k[2]
      IN /\ replayed <=> readable
         /\ readable <=> listed

\* ------------------------------------------------------------------------
\* The per-test-case relay with a count of what happened to every tracked
\* status key since it was last cleared.

\* Counts are kept up to MaxCount.
MaxCount == 3

\* The outcome of the delivery of p as the response reports it.
Outcome(p) ==
  IF PostTestResults(p).status # 200 THEN "rejected"
  ELSE IF Has(PostTestResults(p).body, "duplicate") THEN "duplicate"
  ELSE IF Truthy(PostTestResults(p).body.enhanced) THEN "enrichment"
  ELSE "new"

NoCount == [new |-> 0, enriched |-> 0, frames |-> 0]

CountOf(statusKey) == IF statusKey \in DOMAIN tally THEN tally[statusKey] ELSE NoCount

Bump(n, by) == IF n + by > MaxCount THEN MaxCount ELSE n + by

\* POST /api/webhook/test-results, counted.
DeliverCounted(payload) ==
  /\ testCaseResults' = processWebhookData(payload).testCaseResults
  /\ processedWebhooks' = processWebhookData(payload).processedWebhooks
  /\ requestExecutions' = processWebhookData(payload).requestExecutions
  /\ UNCHANGED <<rooms, connected, now>>
  /\ UNCHANGED svars
  /\ LET statusKey == StatusKey(KeyOf(payload), EntryOf(payload).status)
         old == CountOf(statusKey)
         frames == FramesTo(processWebhookData(payload).emitted, "s1")
     IN tally' =
          IF Outcome(payload) = "new"
            THEN MapSet(tally, statusKey,
                        [old EXCEPT !.new = Bump(@, 1), !.frames = Bump(@, frames)])
          ELSE IF Outcome(payload) = "enrichment"
            THEN MapSet(tally, statusKey,
                        [old EXCEPT !.enriched = Bump(@, 1), !.frames = Bump(@, frames)])
          ELSE tally

\* DELETE /api/test-results/request/:requestId, counted: the counts of the
\* status keys it removes from the tracking set start again.
DeleteCounted(requestId) ==
  /\ testCaseResults' = ClearRequestResults(requestId).testCaseResults
  /\ processedWebhooks' = ClearRequestResults(requestId).processedWebhooks
  /\ requestExecutions' = ClearRequestResults(requestId).requestExecutions
  /\ UNCHANGED <<rooms, connected, now>>
  /\ UNCHANGED svars
  /\ tally' = [k \in DOMAIN tally \cap ClearRequestResults(requestId).processedWebhooks
                 |-> tally[k]]

\* The two pairs that share the composite key "a-b-c", and the payloads for them.
SharingPairs == {<<"a", "b-c">>, <<"a-b", "c">>}
SharingPayloads == { p \in ValidPayloads : <<p.requestId, EntryOf(p).id>> \in SharingPairs }

NextTally ==
  \/ \E p \in SharingPayloads : DeliverCounted(p)
  \/ \E e \in Executions : DeleteCounted(e)
  \/ \E k \in SharingPairs : GetTestCase(k[1], k[2])
  \/ Connect("s1")
  \/ \E e \in Executions : Subscribe("s1", e)
  \/ Tick

SpecTally == Init /\ [][NextTally]_vars

\* C28: between two clearings of its bookkeeping, a (key, status) has at
\* most one delivery that is New and at most one that is an Enrichment,
\* whatever is delivered and however often; a client gets at most two
\* broadcast frames for it.
C28_AtMostOneNewOneEnrichment ==
  \A k \in DOMAIN tally :
    /\ tally[k].new <= 1
    /\ tally[k].enriched <= 1
    /\ tally[k].frames <= 2

\* A status key has had its New delivery and its Enrichment, client "s1" got
\* both frames, and a producer retries both payloads.
C28_Witness ==
  \E p \in SharingPayloads : \E q \in SharingPayloads :
    /\ KeyOf(p) = KeyOf(q)
    /\ EntryOf(p).status = EntryOf(q).status
    /\ ~Truthy(EntryOf(p).failure) /\ Truthy(EntryOf(q).failure)
    /\ CountOf(StatusKey(KeyOf(p), EntryOf(p).status)) =
         [new |-> 1, enriched |-> 1, frames |-> 2]
    /\ Outcome(p) = "duplicate"
    /\ Outcome(q) = "duplicate"

\* The number of frames the replay of a subscribe of c to e holds for test
\* case t.
ReplayedFor(c, e, t) ==
  Cardinality({ f \in BagToSet(SubscribeReplay(c, e)) : f.data.testCaseId = t })

\* C29: a client that subscribes to an execution once and stays subscribed
\* gets every readable result state of the execution exactly once: at the
\* subscribe, one replayed frame for every registered result that a GET
\* would return and none for the others, and no broadcast for a delivery
\* handled before the subscribe; after the subscribe, one broadcast frame
\* for every New or Enrichment delivery and none for a Duplicate.
C29_ReplayThenBroadcastExactlyOnce ==
  \A c \in connected : \A e \in Executions :
    IF RoomOf(e) \notin rooms[c]
      THEN /\ \A t \in RegisteredIds(e) :
                ReplayedFor(c, e, t) =
                  IF GetTestCaseResult(e, t).status = 200 THEN 1 ELSE 0
           /\ \A p \in ValidPayloads :
                p.requestId = e => FramesTo(processWebhookData(p).emitted, c) = 0
      ELSE \A p \in ValidPayloads :
             p.requestId = e =>
               FramesTo(processWebhookData(p).emitted, c) =
                 IF Outcome(p) \in {"new", "enrichment"} THEN 1 ELSE 0

\* ------------------------------------------------------------------------
\* Properties of the periodic cleanup of the per-request relay.

\* The (requirement, request) memberships of registry reg.
Memberships(reg) ==
  UNION { { <<reg[i].key, q>> : q \in reg[i].ids } : i \in 1..Len(reg) }

\* C30: a run of the sweeper removes no result whose expiry has not passed,
\* and neither its registry memberships nor its tracking element: every
\* unexpired entry is stored with the same content after the run, is
\* registered where it was and is tracked if it was.
C30_SweepKeepsUnexpired ==
  [][ cleanupExpiredResults =>
        \A q \in DOMAIN webhookResults :
          ~TtlElapsed(webhookResults[q]) =>
            /\ q \in DOMAIN webhookResults'
            /\ webhookResults'[q] = webhookResults[q]
            /\ (q \in processedRequests) = (q \in processedRequests')
            /\ { m \in Memberships(activeRequests') : m[2] = q } =
                 { m \in Memberships(activeRequests) : m[2] = q } ]_vars

\* The sweeper has just removed an expired result, and an unexpired result
\* that was registered under the same requirement is still stored,
\* registered and tracked.
C30_Witness ==
  /\ lastOp = "cleanup"
  /\ swept.removed # {}
  /\ \E q \in DOMAIN webhookResults :
       /\ ~TtlElapsed(webhookResults[q])
       /\ q \in processedRequests
       /\ \E m \in Memberships(activeRequests) : m[2] = q

====
